---- MODULE Spec2Model ----
(***************************************************************************)
(* Model of precomputed_ai_weights.py (create_database, query_database,    *)
(* simulate_neuron) and of the driver generate_sample_database.py (main).  *)
(*                                                                         *)
(* Python values are records tagged with their type.  Text (str) is a      *)
(* sequence of one-character strings, so that str(), repr() and            *)
(* str.replace() are computed character by character.  A dict is the       *)
(* sequence of its (key, value) entries in insertion order.                *)
(***************************************************************************)
EXTENDS Integers, Sequences, FiniteSets

\* Largest num_inputs / input_bit_depth the callers of the model pass.
MaxNumInputs == 2
MaxBitDepth == 2

(***************************************************************************)
(* Python values                                                           *)
(***************************************************************************)
PyInt(k) == [type |-> "int", val |-> k]
PyBool(k) == [type |-> "bool", val |-> k]
PyFloat(k) == [type |-> "float", val |-> k]
PyStrNum(k) == [type |-> "str", val |-> k]
PyNone == [type |-> "NoneType", val |-> 0]

PyTuple(items) == [type |-> "tuple", items |-> items]
PyList(items) == [type |-> "list", items |-> items]
PyStr(text) == [type |-> "str", text |-> text]

\* isinstance(x, int): bool is a subclass of int.
IsInstanceInt(x) == x.type \in {"int", "bool"}
IsInstanceTuple(x) == x.type = "tuple"

\* What a call hands back to its caller: a value, or a raised exception.
Return(v) == [kind |-> "return", value |-> v]
Raise(e, m) == [kind |-> "raise", error |-> e, message |-> m]

(***************************************************************************)
(* Text: str(), repr(), str.replace(" ", "")                               *)
(***************************************************************************)
DigitChar(n) == <<"0", "1", "2", "3", "4", "5", "6", "7", "8", "9">>[n + 1]

RECURSIVE NatStr(_)
NatStr(n) == IF n < 10 THEN <<DigitChar(n)>>
             ELSE NatStr(n \div 10) \o <<DigitChar(n % 10)>>

IntStr(k) == IF k < 0 THEN <<"-">> \o NatStr(0 - k) ELSE NatStr(k)

\* ", ".join(repr(e) for e in items)
RECURSIVE JoinItems(_, _)
JoinItems(items, i) ==
  IF i > Len(items) THEN <<>>
  ELSE IF i = Len(items) THEN IntStr(items[i])
  ELSE IntStr(items[i]) \o <<",", " ">> \o JoinItems(items, i + 1)

\* repr of a tuple of ints: "()", "(0,)", "(0, 1)", "(0, 1, 2)", ...
TupleRepr(items) ==
  IF Len(items) = 1 THEN <<"(">> \o IntStr(items[1]) \o <<",", ")">>
  ELSE <<"(">> \o JoinItems(items, 1) \o <<")">>

\* repr of a list of ints: "[]", "[0]", "[0, 1]", ...
ListRepr(items) == <<"[">> \o JoinItems(items, 1) \o <<"]">>

\* str(x)
Str(x) ==
  CASE x.type = "tuple" -> TupleRepr(x.items)
    [] x.type = "list" -> ListRepr(x.items)
    [] x.type = "str" -> x.text
    [] x.type = "int" -> IntStr(x.val)

\* repr(x): differs from str(x) only for a str, which it quotes
Repr(x) ==
  CASE x.type = "tuple" -> TupleRepr(x.items)
    [] x.type = "list" -> ListRepr(x.items)
    [] x.type = "str" -> <<"'">> \o x.text \o <<"'">>
    [] x.type = "int" -> IntStr(x.val)

\* text.replace(" ", "")
IsNotSpace(c) == c # " "
RemoveSpaces(text) == SelectSeq(text, IsNotSpace)

(***************************************************************************)
(* dict                                                                    *)
(***************************************************************************)
EmptyDict == <<>>

DictHas(d, k) == \E i \in 1..Len(d) : d[i].key = k

DictGet(d, k) == d[CHOOSE i \in 1..Len(d) : d[i].key = k].value

\* d[k] = v : overwrites in place, or appends a new entry
DictSet(d, k, v) ==
  IF DictHas(d, k)
  THEN [i \in 1..Len(d) |-> IF d[i].key = k THEN [key |-> k, value |-> v] ELSE d[i]]
  ELSE Append(d, [key |-> k, value |-> v])

DictKeys(d) == {d[i].key : i \in 1..Len(d)}

(***************************************************************************)
(* create_database                                                         *)
(***************************************************************************)
\* range(n)
Range(n) == [i \in 1..n |-> i - 1]

\* itertools.product(pool, repeat=repeat), in the order it yields
RECURSIVE Product(_, _)
Product(pool, repeat) ==
  IF repeat = 0 THEN << <<>> >>
  ELSE LET prev == Product(pool, repeat - 1)
           m == Len(pool)
       IN [i \in 1..(Len(prev) * m) |->
             Append(prev[((i - 1) \div m) + 1], pool[((i - 1) % m) + 1])]

\* Variant: the check written with < instead of <=, so that 0 passes
ValidNumInputs_zero_passes(num_inputs) ==
  IsInstanceInt(num_inputs) /\ ~(num_inputs.val < 0)

\* line 55: the num_inputs check passes
ValidNumInputs(num_inputs) == IsInstanceInt(num_inputs) /\ ~(num_inputs.val <= 0)

\* line 57: the input_bit_depth check passes
ValidBitDepth(input_bit_depth) ==
  IsInstanceInt(input_bit_depth) /\ ~(input_bit_depth.val <= 0)

\* Variant: the largest value (2**d - 1) used as the size of the range
max_input_value_minus_one(input_bit_depth) == 2 ^ input_bit_depth.val - 1

\* line 61
max_input_value(input_bit_depth) == 2 ^ input_bit_depth.val

\* Variant: the values are added up instead of multiplied
RECURSIVE MultiplyLoop_adds(_, _, _)
MultiplyLoop_adds(inputs, i, result) ==
  IF i > Len(inputs) THEN result
  ELSE MultiplyLoop_adds(inputs, i + 1, result + inputs[i])

\* lines 73-75: result = 1; for val in inputs: result *= val
RECURSIVE MultiplyLoop(_, _, _)
MultiplyLoop(inputs, i, result) ==
  IF i > Len(inputs) THEN result
  ELSE MultiplyLoop(inputs, i + 1, result * inputs[i])

\* Variant: an operation that is not implemented is skipped, not refused
BuildStep_skips(state, inputs, operation) ==
  IF state.raised THEN state
  ELSE IF operation = "multiply"
  THEN [database |-> DictSet(state.database, inputs, MultiplyLoop(inputs, 1, 1)),
        raised |-> FALSE, enumerated |-> state.enumerated + 1]
  ELSE [database |-> state.database, raised |-> FALSE,
        enumerated |-> state.enumerated + 1]

\* lines 71-82: one pass through the body of the loop, for the combination
\* `inputs`.  state is the local dict, whether the loop was left by the
\* raise of line 82 (no pass runs after it), and the number of combinations
\* taken from the iterator.
BuildStep(state, inputs, operation) ==
  IF state.raised THEN state
  ELSE IF operation = "multiply"
  THEN [database |-> DictSet(state.database, inputs, MultiplyLoop(inputs, 1, 1)),
        raised |-> FALSE, enumerated |-> state.enumerated + 1]
  ELSE [database |-> state.database, raised |-> TRUE,
        enumerated |-> state.enumerated + 1]

\* line 71: the passes for combos[lo..hi], in order.  The range is halved,
\* and the first half finished before the second starts, to keep the
\* evaluation shallow.
RECURSIVE BuildLoop(_, _, _, _, _)
BuildLoop(combos, lo, hi, state, operation) ==
  IF lo > hi THEN state
  ELSE IF lo = hi THEN BuildStep(state, combos[lo], operation)
  ELSE LET mid == (lo + hi) \div 2
           half == BuildLoop(combos, lo, mid, state, operation)
       IN IF half.enumerated >= 0
          THEN BuildLoop(combos, mid + 1, hi, half, operation)
          ELSE half

\* enumerated: the number of combinations taken from input_combinations
create_database(num_inputs, input_bit_depth, operation) ==
  IF ~ValidNumInputs(num_inputs)
  THEN [ret |-> Raise("ValueError", "num_inputs must be a positive integer."),
        enumerated |-> 0]
  ELSE IF ~ValidBitDepth(input_bit_depth)
  THEN [ret |-> Raise("ValueError", "input_bit_depth must be a positive integer."),
        enumerated |-> 0]
  ELSE LET input_combinations ==
             Product(Range(max_input_value(input_bit_depth)), num_inputs.val)
           final == BuildLoop(input_combinations, 1, Len(input_combinations),
                              [database |-> EmptyDict, raised |-> FALSE,
                               enumerated |-> 0],
                              operation)
       IN IF final.raised
          THEN [ret |-> Raise("ValueError", "Unsupported operation"),
                enumerated |-> final.enumerated]
          ELSE [ret |-> Return(final.database), enumerated |-> final.enumerated]

(***************************************************************************)
(* generate_sample_database.py line 57: tuple keys to string keys          *)
(***************************************************************************)
\* Variant: keys written as "(" + ", ".join(...) + ")", which loses the comma
\* that str() puts after the element of a one-element tuple
SerializeKey_joined(key) == <<"(">> \o JoinItems(key, 1) \o <<")">>

\* str(key)
SerializeKey(key) == Str(PyTuple(key))

\* the comprehension over items[lo..hi], in order.  The range is halved,
\* and the first half finished before the second starts, to keep the
\* evaluation shallow.
RECURSIVE SerializeLoop(_, _, _, _)
SerializeLoop(items, lo, hi, out) ==
  IF lo > hi THEN out
  ELSE IF lo = hi THEN DictSet(out, SerializeKey(items[lo].key), items[lo].value)
  ELSE LET mid == (lo + hi) \div 2
           half == SerializeLoop(items, lo, mid, out)
       IN IF Len(half) >= 0 THEN SerializeLoop(items, mid + 1, hi, half) ELSE half

Serialize(database_tuple_keys) ==
  SerializeLoop(database_tuple_keys, 1, Len(database_tuple_keys), EmptyDict)

(***************************************************************************)
(* query_database, simulate_neuron                                         *)
(***************************************************************************)
\* Variant: no second lookup under the key without spaces
query_database_no_fallback(database, input_values) ==
  IF ~IsInstanceTuple(input_values)
  THEN [ret |-> Raise("TypeError", "input_values must be a tuple."),
        database |-> database]
  ELSE LET input_key == Str(input_values)
       IN IF DictHas(database, input_key)
          THEN [ret |-> Return(DictGet(database, input_key)), database |-> database]
          ELSE [ret |-> Raise("KeyError", "not found in the database."),
                database |-> database]

\* Variant: a key that is not found yields 0, as database.get(key, 0) would
query_database_default(database, input_values) ==
  IF ~IsInstanceTuple(input_values)
  THEN [ret |-> Raise("TypeError", "input_values must be a tuple."),
        database |-> database]
  ELSE LET input_key == Str(input_values)
       IN IF DictHas(database, input_key)
          THEN [ret |-> Return(DictGet(database, input_key)), database |-> database]
          ELSE LET input_key_no_space == RemoveSpaces(Repr(input_values))
               IN IF DictHas(database, input_key_no_space)
                  THEN [ret |-> Return(DictGet(database, input_key_no_space)),
                        database |-> database]
                  ELSE [ret |-> Return(0), database |-> database]

\* Variant: the isinstance check is missing
query_database_unchecked(database, input_values) ==
  LET input_key == Str(input_values)
  IN IF DictHas(database, input_key)
     THEN [ret |-> Return(DictGet(database, input_key)), database |-> database]
     ELSE LET input_key_no_space == RemoveSpaces(Repr(input_values))
          IN IF DictHas(database, input_key_no_space)
             THEN [ret |-> Return(DictGet(database, input_key_no_space)),
                   database |-> database]
             ELSE [ret |-> Raise("KeyError", "not found in the database."),
                   database |-> database]

\* Variant: a hit under the key without spaces is stored under the primary key
query_database_caches(database, input_values) ==
  IF ~IsInstanceTuple(input_values)
  THEN [ret |-> Raise("TypeError", "input_values must be a tuple."),
        database |-> database]
  ELSE LET input_key == Str(input_values)
       IN IF DictHas(database, input_key)
          THEN [ret |-> Return(DictGet(database, input_key)), database |-> database]
          ELSE LET input_key_no_space == RemoveSpaces(Repr(input_values))
               IN IF DictHas(database, input_key_no_space)
                  THEN [ret |-> Return(DictGet(database, input_key_no_space)),
                        database |-> DictSet(database, input_key,
                                             DictGet(database, input_key_no_space))]
                  ELSE [ret |-> Raise("KeyError", "not found in the database."),
                        database |-> database]

\* ret is what the caller gets; database is the dict object after the call
query_database(database, input_values) ==
  IF ~IsInstanceTuple(input_values)
  THEN [ret |-> Raise("TypeError", "input_values must be a tuple."),
        database |-> database]
  ELSE LET input_key == Str(input_values)
       IN IF DictHas(database, input_key)
          THEN [ret |-> Return(DictGet(database, input_key)), database |-> database]
          ELSE LET input_key_no_space == RemoveSpaces(Repr(input_values))
               IN IF DictHas(database, input_key_no_space)
                  THEN [ret |-> Return(DictGet(database, input_key_no_space)),
                        database |-> database]
                  ELSE [ret |-> Raise("KeyError", "not found in the database."),
                        database |-> database]

simulate_neuron(database, input_values) == query_database(database, input_values)

(***************************************************************************)
(* Inputs                                                                  *)
(***************************************************************************)
Operations == {"multiply", "add", "divide"}

\* Values passed as num_inputs: ints from -1 up, and values that are not ints
NumInputsArgs ==
  {PyInt(k) : k \in -1..MaxNumInputs}
    \cup {PyBool(0), PyBool(1), PyFloat(1), PyStrNum(1), PyNone}

\* Values passed as input_bit_depth
BitDepthArgs ==
  {PyInt(k) : k \in -1..MaxBitDepth}
    \cup {PyBool(0), PyBool(1), PyFloat(1), PyStrNum(1), PyNone}

\* All sequences of length n over the set S
RECURSIVE Tuples(_, _)
Tuples(S, n) ==
  IF n = 0 THEN {<<>>}
  ELSE {Append(t, v) : t \in Tuples(S, n - 1), v \in S}

\* The input space [0, 2^d)^n
InSpace(n, d) == Tuples(0..(2 ^ d - 1), n)

\* Tuples around the edges of the input space: every length up to n + 1,
\* elements below, at both ends of, and just above the range
ProbeVals(d) == {-1, 0, 2 ^ d - 1, 2 ^ d}
Probes(n, d) == UNION {Tuples(ProbeVals(d), len) : len \in 0..(n + 1)}

\* Values passed as input_values to a lookup on a table made for (n, d):
\* tuples, and non-tuples (lists, strings spelling a key, bare ints)
QueryInputs(n, d) ==
  {PyTuple(t) : t \in InSpace(n, d) \cup Probes(n, d)}
    \cup {PyList(t) : t \in InSpace(n, d)}
    \cup {PyStr(TupleRepr(t)) : t \in InSpace(n, d)}
    \cup {PyStr(RemoveSpaces(TupleRepr(t))) : t \in InSpace(n, d)}
    \cup {PyInt(k) : k \in ProbeVals(d)}

\* Value by which an artifact marks the entries it stores under keys
\* written without spaces, to tell them from the entries under primary keys
Marker == 100

\* Text-keyed tables written by something other than Serialize, for the
\* table create_database makes for (n, d):
\*   "nospace": every key written without spaces, "(0,1)"
\*   "both":    every key under both spellings, the second one marked
RECURSIVE RekeyLoop(_, _, _, _, _, _)
RekeyLoop(items, lo, hi, out, nospace, mark) ==
  IF lo > hi THEN out
  ELSE IF lo = hi
  THEN LET text == TupleRepr(items[lo].key)
           key == IF nospace THEN RemoveSpaces(text) ELSE text
       IN DictSet(out, key, items[lo].value + mark)
  ELSE LET mid == (lo + hi) \div 2
           half == RekeyLoop(items, lo, mid, out, nospace, mark)
       IN IF Len(half) >= 0 THEN RekeyLoop(items, mid + 1, hi, half, nospace, mark)
          ELSE half

ArtifactStyles == {"nospace", "both"}

Artifact(n, d, style) ==
  LET built == create_database(PyInt(n), PyInt(d), "multiply").ret.value
      last == Len(built)
  IN IF style = "nospace" THEN RekeyLoop(built, 1, last, EmptyDict, TRUE, 0)
     ELSE RekeyLoop(built, 1, last,
                    RekeyLoop(built, 1, last, EmptyDict, FALSE, 0), TRUE, Marker)

(***************************************************************************)
(* State                                                                   *)
(***************************************************************************)
VARIABLES
  program,              \* which program runs: the driver script, or a client of the module
  pc,                   \* where that program is
  outcome,              \* the last call of create_database / query_database / simulate_neuron
  database,             \* client: the tuple-keyed table whose keys it converted
  table,                \* client: the text-keyed table it holds
  origin,               \* client: what `table` was made from
  params,               \* driver: num_inputs, input_bit_depth, operation
  database_tuple_keys,  \* driver: local variable of main
  database_string_keys, \* driver: local variable of main
  file,                 \* driver: sample_database.json
  console               \* driver: what main printed

vars == <<program, pc, outcome, database, table, origin, params, database_tuple_keys,
          database_string_keys, file, console>>

clientVars == <<database, table, origin>>
driverVars == <<params, database_tuple_keys, database_string_keys, file, console>>

Unbound == [bound |-> FALSE]
Bound(v) == [bound |-> TRUE, value |-> v]

Init ==
  /\ program \in {"client", "generate_sample_database"}
  /\ pc = IF program = "client" THEN "build" ELSE "start"
  /\ outcome = [op |-> "none"]
  /\ database = EmptyDict
  /\ table = EmptyDict
  /\ origin = [style |-> "empty", n |-> 0, d |-> 0]
  /\ params = Unbound
  /\ database_tuple_keys = Unbound
  /\ database_string_keys = Unbound
  /\ file = [exists |-> FALSE, complete |-> FALSE]
  /\ console = <<>>

(***************************************************************************)
(* A client of the module: builds a table and converts its keys, or loads  *)
(* a table; then looks tuples up in it                                     *)
(***************************************************************************)
CreateRecord(num_inputs, input_bit_depth, operation, exec) ==
  [op |-> "create_database", num_inputs |-> num_inputs,
   input_bit_depth |-> input_bit_depth, operation |-> operation,
   ret |-> exec.ret, enumerated |-> exec.enumerated]

CallCreateDatabase(num_inputs, input_bit_depth, operation) ==
  /\ program = "client" /\ pc = "build"
  /\ outcome' = CreateRecord(num_inputs, input_bit_depth, operation,
                             create_database(num_inputs, input_bit_depth, operation))
  /\ pc' = "built"
  /\ UNCHANGED <<program, clientVars, driverVars>>

\* The client is done with what the call gave it and starts over
NextBuild ==
  /\ program = "client" /\ pc = "built"
  /\ outcome' = [op |-> "none"]
  /\ pc' = "build"
  /\ UNCHANGED <<program, clientVars, driverVars>>

\* The calling code converts the tuple keys of the table it got
ConvertKeys ==
  /\ program = "client" /\ pc = "built"
  /\ outcome.ret.kind = "return"
  /\ database' = outcome.ret.value
  /\ table' = Serialize(outcome.ret.value)
  /\ origin' = [style |-> "serialized", n |-> outcome.num_inputs.val,
                d |-> outcome.input_bit_depth.val]
  /\ outcome' = [op |-> "convert_keys"]
  /\ pc' = "lookup"
  /\ UNCHANGED <<program, driverVars>>

\* A client that builds nothing loads a table some other writer produced
LoadArtifact(n, d, style) ==
  /\ program = "client" /\ pc = "build"
  /\ table' = Artifact(n, d, style)
  /\ origin' = [style |-> style, n |-> n, d |-> d]
  /\ outcome' = [op |-> "load"]
  /\ pc' = "lookup"
  /\ UNCHANGED <<program, database, driverVars>>

\* A client that builds nothing goes on with an empty table
KeepEmpty ==
  /\ program = "client" /\ pc = "build"
  /\ outcome' = [op |-> "load"]
  /\ pc' = "lookup"
  /\ UNCHANGED <<program, clientVars, driverVars>>

CallQueryDatabase(input_values) ==
  /\ program = "client" /\ pc = "lookup"
  /\ LET exec == query_database(table, input_values)
     IN /\ outcome' = [op |-> "query_database", input_values |-> input_values,
                       ret |-> exec.ret]
        /\ table' = exec.database
  /\ pc' = "called"
  /\ UNCHANGED <<program, database, origin, driverVars>>

CallSimulateNeuron(input_values) ==
  /\ program = "client" /\ pc = "lookup"
  /\ LET exec == simulate_neuron(table, input_values)
     IN /\ outcome' = [op |-> "simulate_neuron", input_values |-> input_values,
                       ret |-> exec.ret]
        /\ table' = exec.database
  /\ pc' = "called"
  /\ UNCHANGED <<program, database, origin, driverVars>>

\* The client is done with what the call gave it and goes on to its next call
NextLookup ==
  /\ program = "client" /\ pc = "called"
  /\ outcome' = [op |-> "next_lookup"]
  /\ pc' = "lookup"
  /\ UNCHANGED <<program, clientVars, driverVars>>

(***************************************************************************)
(* generate_sample_database.py: main                                       *)
(***************************************************************************)
Report(line) == console' = Append(console, line)

\* lines 20-33: the parameter block and the first message.  The script sets
\* 2, 2, "multiply"; the block is what its user edits, so any values.
DriverStart(num_inputs, input_bit_depth, operation) ==
  /\ program = "generate_sample_database" /\ pc = "start"
  /\ params' = [bound |-> TRUE, num_inputs |-> num_inputs,
                input_bit_depth |-> input_bit_depth, operation |-> operation]
  /\ Report("Generating database with")
  /\ pc' = "create"
  /\ UNCHANGED <<program, outcome, clientVars, database_tuple_keys,
                 database_string_keys, file>>

\* Variant: the `return` of the ValueError handler is missing
AfterCreate_falls_through(ret) ==
  IF ret.kind = "return"
  THEN [pc |-> "convert", line |-> "Database with tuple keys generated successfully."]
  ELSE IF ret.error = "ValueError"
  THEN [pc |-> "convert", line |-> "Error generating database"]
  ELSE [pc |-> "done",
        line |-> "An unexpected error occurred during database generation"]

\* lines 37-46: where main goes after the call, and what it prints
AfterCreate(ret) ==
  IF ret.kind = "return"
  THEN [pc |-> "convert", line |-> "Database with tuple keys generated successfully."]
  ELSE IF ret.error = "ValueError"
  THEN [pc |-> "done", line |-> "Error generating database"]
  ELSE [pc |-> "done",
        line |-> "An unexpected error occurred during database generation"]

\* lines 37-46.  exhausted: the machine runs out of memory while the table
\* is being filled, and the call raises MemoryError instead of returning.
DriverCreate(exhausted) ==
  /\ program = "generate_sample_database" /\ pc = "create"
  /\ LET made == create_database(params.num_inputs, params.input_bit_depth,
                                 params.operation)
         exec == IF exhausted /\ made.ret.kind = "return"
                 THEN [ret |-> Raise("MemoryError", ""), enumerated |-> made.enumerated]
                 ELSE made
         after == AfterCreate(exec.ret)
     IN /\ exhausted => made.ret.kind = "return"
        /\ outcome' = [CreateRecord(params.num_inputs, params.input_bit_depth,
                                    params.operation, exec)
                         EXCEPT !.op = IF exhausted THEN "create_database (out of memory)"
                                       ELSE "create_database"]
        /\ database_tuple_keys' =
             IF exec.ret.kind = "return" THEN Bound(exec.ret.value)
             ELSE database_tuple_keys
        /\ Report(after.line)
        /\ pc' = after.pc
  /\ UNCHANGED <<program, clientVars, params, database_string_keys, file>>

\* lines 57-58; reading an unbound local raises, and nothing catches it here
DriverConvert ==
  /\ program = "generate_sample_database" /\ pc = "convert"
  /\ IF database_tuple_keys.bound
     THEN /\ database_string_keys' = Bound(Serialize(database_tuple_keys.value))
          /\ Report("Converted tuple keys to string keys for JSON serialization.")
          /\ pc' = "open"
     ELSE /\ pc' = "crashed"
          /\ UNCHANGED <<database_string_keys, console>>
  /\ UNCHANGED <<program, outcome, clientVars, params, database_tuple_keys, file>>

\* line 61: open(output_filename, 'w') creates the file, or raises IOError
DriverOpen(error) ==
  /\ program = "generate_sample_database" /\ pc = "open"
  /\ IF error = "none"
     THEN /\ file' = [exists |-> TRUE, complete |-> FALSE]
          /\ pc' = "dump"
          /\ UNCHANGED console
     ELSE /\ Report("Error saving database to file")
          /\ pc' = "done"
          /\ UNCHANGED file
  /\ UNCHANGED <<program, outcome, clientVars, params, database_tuple_keys,
                 database_string_keys>>

\* lines 62-65: json.dump writes the table, or raises IOError part way
DriverDump(error) ==
  /\ program = "generate_sample_database" /\ pc = "dump"
  /\ IF error = "none"
     THEN /\ file' = [exists |-> TRUE, complete |-> TRUE]
          /\ Report("Database saved to sample_database.json")
     ELSE /\ Report("Error saving database to file")
          /\ UNCHANGED file
  /\ pc' = "done"
  /\ UNCHANGED <<program, outcome, clientVars, params, database_tuple_keys,
                 database_string_keys>>

IOErrors == {"none", "IOError"}

(***************************************************************************)
(* Specification                                                           *)
(***************************************************************************)
Next ==
  \/ \E n \in NumInputsArgs, d \in BitDepthArgs, op \in Operations :
       CallCreateDatabase(n, d, op)
  \/ NextBuild
  \/ ConvertKeys
  \/ \E n \in 1..MaxNumInputs, d \in 1..MaxBitDepth, style \in ArtifactStyles :
       LoadArtifact(n, d, style)
  \/ KeepEmpty
  \/ /\ pc = "lookup"
     /\ \E input_values \in QueryInputs(origin.n, origin.d) :
          CallQueryDatabase(input_values)
  \/ /\ pc = "lookup"
     /\ \E input_values \in QueryInputs(origin.n, origin.d) :
          CallSimulateNeuron(input_values)
  \/ NextLookup
  \/ \E n \in NumInputsArgs, d \in BitDepthArgs, op \in Operations :
       DriverStart(n, d, op)
  \/ \E exhausted \in BOOLEAN : DriverCreate(exhausted)
  \/ DriverConvert
  \/ \E error \in IOErrors : DriverOpen(error)
  \/ \E error \in IOErrors : DriverDump(error)

Spec == Init /\ [][Next]_vars

(***************************************************************************)
(* Properties                                                              *)
(***************************************************************************)
\* The arithmetic product of the elements of a tuple
RECURSIVE ProductOf(_)
ProductOf(t) == IF t = <<>> THEN 1 ELSE Head(t) * ProductOf(Tail(t))

IsCreate == outcome.op = "create_database"
IsQuery == outcome.op = "query_database"
IsLookup == outcome.op \in {"query_database", "simulate_neuron"}
TupleQueried == outcome.input_values.type = "tuple"

\* t is a tuple of length n over 0..2^d-1
InInputSpace(t, n, d) ==
  /\ Len(t) = n
  /\ \A j \in 1..Len(t) : t[j] >= 0 /\ t[j] <= 2 ^ d - 1

NotPositiveInteger(x) == x.type \notin {"int", "bool"} \/ x.val <= 0

InvalidArgumentMessages ==
  {"num_inputs must be a positive integer.",
   "input_bit_depth must be a positive integer."}

\* C1: a lookup of a tuple t of the input space in the table obtained by
\* converting the keys of create_database(n, d, "multiply") returns the
\* result create_database stored for t; it does not raise.
C1_RoundTrip ==
  (/\ origin.style = "serialized"
   /\ IsQuery
   /\ TupleQueried
   /\ InInputSpace(outcome.input_values.items, origin.n, origin.d))
  => /\ DictHas(database, outcome.input_values.items)
     /\ outcome.ret = Return(DictGet(database, outcome.input_values.items))

C1_Witness ==
  /\ origin = [style |-> "serialized", n |-> MaxNumInputs, d |-> MaxBitDepth]
  /\ IsQuery
  /\ outcome.input_values = PyTuple([i \in 1..MaxNumInputs |-> 2 ^ MaxBitDepth - 1])
  /\ outcome.ret.kind = "return"
  /\ outcome.ret.value = (2 ^ MaxBitDepth - 1) ^ MaxNumInputs

\* C2: for positive integers num_inputs and input_bit_depth,
\* create_database(.., "multiply") returns a table whose keys are exactly the
\* tuples of length num_inputs over 0..2^input_bit_depth-1, and which has
\* (2^input_bit_depth)^num_inputs entries.
C2_KeysAreInputSpace ==
  (/\ IsCreate
   /\ ~NotPositiveInteger(outcome.num_inputs)
   /\ ~NotPositiveInteger(outcome.input_bit_depth)
   /\ outcome.operation = "multiply")
  => /\ outcome.ret.kind = "return"
     /\ DictKeys(outcome.ret.value) =
          InSpace(outcome.num_inputs.val, outcome.input_bit_depth.val)
     /\ Len(outcome.ret.value) =
          (2 ^ outcome.input_bit_depth.val) ^ outcome.num_inputs.val

C2_Witness ==
  /\ IsCreate
  /\ outcome.num_inputs = PyInt(MaxNumInputs)
  /\ outcome.input_bit_depth = PyInt(MaxBitDepth)
  /\ outcome.operation = "multiply"
  /\ outcome.ret.kind = "return"
  /\ Len(outcome.ret.value) > 1

\* C3: every result stored by create_database(.., "multiply") is the product
\* of the elements of its tuple: 0 when an element is 0, and the element
\* itself when the tuple has one element.
C3_StoredProduct ==
  (IsCreate /\ outcome.ret.kind = "return")
  => \A i \in 1..Len(outcome.ret.value) :
       LET key == outcome.ret.value[i].key
           result == outcome.ret.value[i].value
       IN /\ result = ProductOf(key)
          /\ (\E j \in 1..Len(key) : key[j] = 0) => result = 0
          /\ Len(key) = 1 => result = key[1]

C3_Witness ==
  /\ IsCreate
  /\ outcome.ret.kind = "return"
  /\ \E i \in 1..Len(outcome.ret.value) :
       /\ Len(outcome.ret.value[i].key) = MaxNumInputs
       /\ outcome.ret.value[i].value > 2 ^ MaxBitDepth

\* C4: create_database raises ValueError (must be a positive integer) when
\* num_inputs or input_bit_depth is zero, negative or not an int, whatever
\* the operation is, and has then taken no tuple from the enumeration.
C4_InvalidArgument ==
  (/\ IsCreate
   /\ \/ NotPositiveInteger(outcome.num_inputs)
      \/ NotPositiveInteger(outcome.input_bit_depth))
  => /\ outcome.ret.kind = "raise"
     /\ outcome.ret.error = "ValueError"
     /\ outcome.ret.message \in InvalidArgumentMessages
     /\ outcome.enumerated = 0

C4_Witness ==
  /\ IsCreate
  /\ outcome.num_inputs = PyInt(0)
  /\ outcome.input_bit_depth = PyInt(MaxBitDepth)
  /\ outcome.operation = "add"
  /\ outcome.ret.kind = "raise"
  /\ outcome.ret.message = "num_inputs must be a positive integer."

\* C5: for positive integers num_inputs and input_bit_depth and an operation
\* other than "multiply", create_database raises ValueError (Unsupported
\* operation) and hands no table to its caller.
C5_UnsupportedOperation ==
  (/\ IsCreate
   /\ ~NotPositiveInteger(outcome.num_inputs)
   /\ ~NotPositiveInteger(outcome.input_bit_depth)
   /\ outcome.operation # "multiply")
  => /\ outcome.ret.kind = "raise"
     /\ outcome.ret.error = "ValueError"
     /\ outcome.ret.message = "Unsupported operation"
     /\ "value" \notin DOMAIN outcome.ret

C5_Witness ==
  /\ IsCreate
  /\ outcome.num_inputs = PyInt(MaxNumInputs)
  /\ outcome.input_bit_depth = PyInt(MaxBitDepth)
  /\ outcome.operation = "add"
  /\ outcome.ret.kind = "raise"
  /\ outcome.ret.message = "Unsupported operation"

\* C6: a lookup of a tuple returns the value stored under its primary
\* rendering when the table has that key; when it has not, but has the
\* rendering without spaces, it returns the value stored under that one.
C6_SecondaryRendering ==
  (IsQuery /\ TupleQueried)
  => LET primary == TupleRepr(outcome.input_values.items)
         secondary == RemoveSpaces(primary)
     IN /\ DictHas(table, primary)
             => outcome.ret = Return(DictGet(table, primary))
        /\ (~DictHas(table, primary) /\ DictHas(table, secondary))
             => outcome.ret = Return(DictGet(table, secondary))

C6_Witness ==
  /\ origin.style = "nospace"
  /\ IsQuery
  /\ outcome.input_values = PyTuple(<<1, 1>>)
  /\ ~DictHas(table, <<"(", "1", ",", " ", "1", ")">>)
  /\ DictHas(table, <<"(", "1", ",", "1", ")">>)
  /\ outcome.ret = Return(1)

\* C7: a lookup of a tuple raises KeyError exactly when the table has
\* neither rendering of the tuple; on the table converted from
\* create_database(n, d, "multiply"), it does for every tuple with an
\* element >= 2^d or a length other than n.
C7_NotFound ==
  (IsQuery /\ TupleQueried)
  => LET items == outcome.input_values.items
         primary == TupleRepr(items)
         secondary == RemoveSpaces(primary)
         notFound == outcome.ret.kind = "raise" /\ outcome.ret.error = "KeyError"
     IN /\ notFound <=> (~DictHas(table, primary) /\ ~DictHas(table, secondary))
        /\ (/\ origin.style = "serialized"
            /\ \/ Len(items) # origin.n
               \/ \E j \in 1..Len(items) : items[j] >= 2 ^ origin.d)
             => notFound

C7_Witness ==
  /\ origin = [style |-> "serialized", n |-> 2, d |-> 1]
  /\ IsQuery
  /\ outcome.input_values = PyTuple(<<2, 0>>)
  /\ outcome.ret.kind = "raise"
  /\ outcome.ret.error = "KeyError"

\* C8: query_database and simulate_neuron raise TypeError when input_values
\* is not a tuple, also when the table has a key equal to str(input_values).
C8_TypeMismatch ==
  (IsLookup /\ ~TupleQueried)
  => /\ outcome.ret.kind = "raise"
     /\ outcome.ret.error = "TypeError"

C8_Witness ==
  /\ outcome.op = "simulate_neuron"
  /\ outcome.input_values.type = "str"
  /\ DictHas(table, Str(outcome.input_values))
  /\ outcome.ret.kind = "raise"
  /\ outcome.ret.error = "TypeError"

\* C9: in the driver the output file exists only once create_database has
\* returned a table; when the call raised, main prints a message and ends
\* without the file, and it never ends with an uncaught exception.
DriverBuildFailed ==
  /\ outcome.op \in {"create_database", "create_database (out of memory)"}
  /\ outcome.ret.kind = "raise"

BuildFailureLines ==
  {"Error generating database",
   "An unexpected error occurred during database generation"}

C9_NoFileOnFailure ==
  (program = "generate_sample_database")
  => /\ file.exists => (IsCreate /\ outcome.ret.kind = "return")
     /\ pc # "crashed"
     /\ DriverBuildFailed
          => /\ pc = "done"
             /\ ~file.exists
             /\ console[Len(console)] \in BuildFailureLines

C9_Witness ==
  /\ program = "generate_sample_database"
  /\ pc = "done"
  /\ DriverBuildFailed
  /\ outcome.ret.message = "Unsupported operation"
  /\ ~file.exists
  /\ console[Len(console)] = "Error generating database"

\* C10: no call of query_database or simulate_neuron changes the table,
\* whether it returns a value or raises.
C10_LookupLeavesTable ==
  [][(pc = "lookup" /\ pc' = "called") => table' = table]_vars

C10_Witness ==
  /\ origin.style = "nospace"
  /\ origin.n = MaxNumInputs
  /\ outcome.op = "simulate_neuron"
  /\ TupleQueried
  /\ outcome.ret.kind = "return"
  /\ ~DictHas(table, TupleRepr(outcome.input_values.items))
  /\ Len(table) = (2 ^ origin.d) ^ origin.n

====
